---- MODULE Spec2Model ----
(***************************************************************************)
(* Sale creation form of the I.S.T.D PRO client (SalesCreatePage.jsx):     *)
(* the draft (customer fields, tax, line items), the live totals, the      *)
(* validation pass and the submit handler with its POST /sales request.    *)
(*                                                                         *)
(* JavaScript values are modelled by what the handlers do with them:       *)
(*   - a text value is a sequence of one-character strings;                *)
(*   - a field that holds either a number or the text of an <input> is a   *)
(*     record [tag, n, s] (JNum / JStr);                                   *)
(*   - the result of Number(..) is a record [nan, n].                      *)
(* The page is an ES module (import/export), so its code runs in strict    *)
(* mode.                                                                   *)
(***************************************************************************)
EXTENDS Integers, Sequences, FiniteSets, TLC

(***************************************************************************)
(* Bounds of the model                                                     *)
(***************************************************************************)
\* Longest items sequence the model lets addItemRow build.
MaxItems == 2

(***************************************************************************)
(* Text                                                                    *)
(***************************************************************************)
EmptyText == << >>

IsSpace(c) == c = " "

RECURSIVE TrimStart(_)
TrimStart(s) ==
    IF s # << >> /\ IsSpace(Head(s)) THEN TrimStart(Tail(s)) ELSE s

RECURSIVE TrimEnd(_)
TrimEnd(s) ==
    IF s # << >> /\ IsSpace(s[Len(s)])
    THEN TrimEnd(SubSeq(s, 1, Len(s) - 1))
    ELSE s

\* String.prototype.trim
Trim(s) == TrimEnd(TrimStart(s))

\* /.+@.+\..+/.test(s): unanchored; "." matches any character but a line
\* break, so a space counts as a character.
EmailRegexTest(s) ==
    \E i, j \in 1..Len(s) :
        /\ i > 1
        /\ s[i] = "@"
        /\ j > i + 1
        /\ s[j] = "."
        /\ j < Len(s)

(***************************************************************************)
(* Numbers                                                                 *)
(***************************************************************************)
JNum(n) == [tag |-> "num", n |-> n, s |-> << >>]
JStr(s) == [tag |-> "str", n |-> 0, s |-> s]

Num(n) == [nan |-> FALSE, n |-> n]
NaN == [nan |-> TRUE, n |-> 0]

Digits == {"0", "1", "2", "3", "4", "5", "6", "7", "8", "9"}

DigitVal(c) ==
    CASE c = "0" -> 0 [] c = "1" -> 1 [] c = "2" -> 2 [] c = "3" -> 3
      [] c = "4" -> 4 [] c = "5" -> 5 [] c = "6" -> 6 [] c = "7" -> 7
      [] c = "8" -> 8 [] c = "9" -> 9

RECURSIVE DigitsVal(_)
DigitsVal(s) ==
    IF s = << >> THEN 0
    ELSE 10 * DigitsVal(SubSeq(s, 1, Len(s) - 1)) + DigitVal(s[Len(s)])

IsDigits(s) == s # << >> /\ \A i \in 1..Len(s) : s[i] \in Digits

\* Number(text): surrounding white space is dropped, the empty text is 0, a
\* decimal integer literal with an optional sign is its value, anything else
\* is NaN. (Fractions and exponents are outside the model's alphabet.)
StringToNumber(s) ==
    LET t == Trim(s) IN
    IF t = << >> THEN Num(0)
    ELSE IF IsDigits(t) THEN Num(DigitsVal(t))
    ELSE IF Head(t) = "-" /\ IsDigits(Tail(t)) THEN Num(0 - DigitsVal(Tail(t)))
    ELSE IF Head(t) = "+" /\ IsDigits(Tail(t)) THEN Num(DigitsVal(Tail(t)))
    ELSE NaN

\* Number(v)
Number(v) == IF v.tag = "num" THEN Num(v.n) ELSE StringToNumber(v.s)

\* variant: Number(v) || 1
NumberOrOne(v) ==
    LET r == Number(v) IN IF r.nan \/ r.n = 0 THEN 1 ELSE r.n

\* Number(v) || 0 : NaN and 0 are falsy
NumberOrZero(v) ==
    LET r == Number(v) IN IF r.nan \/ r.n = 0 THEN 0 ELSE r.n

\* !v for a number-or-text value: 0 and the empty text are falsy
Falsy(v) == IF v.tag = "num" THEN v.n = 0 ELSE v.s = << >>

\* v === ""
IsEmptyString(v) == v.tag = "str" /\ v.s = << >>

(***************************************************************************)
(* Exact quotients (the previewed amounts are not rounded by the code)     *)
(***************************************************************************)
Abs(n) == IF n < 0 THEN 0 - n ELSE n

RECURSIVE Gcd(_, _)
Gcd(a, b) == IF b = 0 THEN a ELSE Gcd(b, a % b)

\* n / d for d > 0, in lowest terms
Quot(n, d) ==
    LET g == Gcd(Abs(n), d) IN [num |-> n \div g, den |-> d \div g]

QInt(n) == [num |-> n, den |-> 1]

QAdd(a, b) == Quot(a.num * b.den + b.num * a.den, a.den * b.den)

(***************************************************************************)
(* The draft                                                               *)
(***************************************************************************)
\* useState initial values, and the values the success path resets to
DefaultItem == [productId |-> "", quantity |-> JNum(1), unitPrice |-> JNum(0)]

DefaultCustomer ==
    [customerName |-> EmptyText, customerEmail |-> EmptyText,
     customerPhone |-> EmptyText, taxPercentage |-> JNum(0)]

DefaultItems == << DefaultItem >>

(***************************************************************************)
(* Live totals                                                             *)
(***************************************************************************)
\* items.reduce((sum, item) => sum + qty * price, 0), left to right
RECURSIVE computeSubtotal(_)
computeSubtotal(its) ==
    IF its = << >> THEN 0
    ELSE LET n == Len(its)
             qty == NumberOrZero(its[n].quantity)
             price == NumberOrZero(its[n].unitPrice)
         IN computeSubtotal(SubSeq(its, 1, n - 1)) + qty * price

\* const taxPercentage = Number(customer.taxPercentage) || 0
taxPercentageOf(cust) == NumberOrZero(cust.taxPercentage)

\* variant: the division by 100 left out
taxAmountNotDivided(cust, its) ==
    QInt(computeSubtotal(its) * taxPercentageOf(cust))

\* const taxAmount = (subtotal * taxPercentage) / 100
taxAmountOf(cust, its) == Quot(computeSubtotal(its) * taxPercentageOf(cust), 100)

\* const totalAmount = subtotal + taxAmount
totalAmountOf(cust, its) == QAdd(QInt(computeSubtotal(its)), taxAmountOf(cust, its))

(***************************************************************************)
(* Validation                                                              *)
(***************************************************************************)
\* The page is an ES module: assigning a property on a primitive string
\* (error.customerEmail = ..., error being the message state) raises a
\* TypeError.
StrictMode == TRUE

NameBlank(cust) == Trim(cust.customerName) = << >>

EmailBlank(cust) == Trim(cust.customerEmail) = << >>

EmailMalformed(cust) ==
    ~EmailBlank(cust) /\ ~EmailRegexTest(Trim(cust.customerEmail))

TaxOutOfRange(cust) == taxPercentageOf(cust) < 0 \/ taxPercentageOf(cust) > 100

ItemFieldMessage(f) ==
    CASE f = "productId" -> "Select a product"
      [] f = "quantity" -> "Quantity must be at least 1"
      [] f = "unitPrice" -> "Unit price must be 0 or more"

\* Number(v) <= 0 and Number(v) < 0 are false for NaN
NumberLeqZero(v) == LET r == Number(v) IN ~r.nan /\ r.n <= 0
NumberLtZero(v) == LET r == Number(v) IN ~r.nan /\ r.n < 0

\* the object ie built for one row
ItemErrorsOf(item) ==
    LET bad == {f \in {"productId", "quantity", "unitPrice"} :
                   \/ f = "productId" /\ item.productId = ""
                   \/ f = "quantity"
                      /\ (Falsy(item.quantity) \/ NumberLeqZero(item.quantity))
                   \/ f = "unitPrice"
                      /\ (IsEmptyString(item.unitPrice) \/ NumberLtZero(item.unitPrice))}
    IN [f \in bad |-> ItemFieldMessage(f)]

NoFieldErrors == [fields |-> [k \in {} |-> ""], itemErrors |-> << >>]

\* Object.keys(errors)
ErrorKeys(errs) ==
    DOMAIN errs.fields \cup (IF errs.itemErrors # << >> THEN {"itemErrors"} ELSE {})

\* The statements of validate that write to the object `errors`.
ValidateErrors(cust, its) ==
    LET rows == [i \in 1..Len(its) |-> ItemErrorsOf(its[i])]
        keys == (IF NameBlank(cust) THEN {"customerName"} ELSE {})
                \cup (IF its = << >> THEN {"items"} ELSE {})
    IN [fields |-> [k \in keys |->
                      IF k = "customerName" THEN "Customer name is required"
                      ELSE "Add at least one item"],
        itemErrors |-> IF \E i \in 1..Len(its) : DOMAIN rows[i] # {}
                       THEN rows ELSE << >>]

\* The statements of validate that write to `error`, the message state (a
\* string), instead of `errors`.
ValidateWritesToErrorString(cust) ==
    EmailBlank(cust) \/ EmailMalformed(cust) \/ TaxOutOfRange(cust)

\* validate(): threw = a TypeError left the function before setFieldErrors;
\* otherwise errors is what setFieldErrors received and valid the returned
\* boolean.
validate(cust, its) ==
    IF StrictMode /\ ValidateWritesToErrorString(cust)
    THEN [threw |-> TRUE, errors |-> NoFieldErrors, valid |-> FALSE]
    ELSE LET errs == ValidateErrors(cust, its)
         IN [threw |-> FALSE, errors |-> errs, valid |-> ErrorKeys(errs) = {}]

(***************************************************************************)
(* Submission payload                                                      *)
(***************************************************************************)
\* variant: the items sent as the inputs hold them, without Number(..)
payloadItemsRaw(its) ==
    [i \in 1..Len(its) |->
        [productId |-> its[i].productId,
         quantity |-> its[i].quantity,
         unitPrice |-> its[i].unitPrice]]

\* items.map(item => ({productId, quantity: Number(..), unitPrice: Number(..)}))
payloadItems(its) ==
    [i \in 1..Len(its) |->
        [productId |-> its[i].productId,
         quantity |-> Number(its[i].quantity),
         unitPrice |-> Number(its[i].unitPrice)]]

\* the object handed to salesApi.createSale
BuildPayload(cust, its) ==
    [customerName |-> Trim(cust.customerName),
     customerEmail |-> Trim(cust.customerEmail),
     customerPhoe |-> Trim(cust.customerPhone),
     taxPercentage |-> taxPercentageOf(cust),
     items |-> payloadItems(its)]

\* variant: the pending payloads alias the live draft
PendingPayloadsLive(inf, cust, its) ==
    [k \in 1..Len(inf) |-> BuildPayload(cust, its)]

\* The payload is an object of its own (trim() and map() results, a fresh
\* object literal) and the setters replace the state objects instead of
\* writing into them: what the draft becomes leaves pending payloads as
\* they are.
PendingPayloads(inf, cust, its) == inf

(***************************************************************************)
(* Inputs of the model: what the user types and what the backend answers   *)
(***************************************************************************)
NameInputs == { <<" ", "J">> }

EmailInputs == { <<"a", "@", "b", ".", "c">> }

PhoneInputs == { <<"5", " ">> }

TaxInputs == { JStr(<<"1", "0">>), JStr(<<"1", "0", "1">>) }

QuantityInputs == { JStr(<<"0">>) }

\* GET /products answers with the catalog, or fails
Catalog == << "p1" >>

\* err.response?.data?.message of a failed call: absent (transport failure),
\* empty, or a text
NoMessage == [present |-> FALSE, text |-> ""]

FailureMessages ==
    { NoMessage, [present |-> TRUE, text |-> ""],
      [present |-> TRUE, text |-> "Insufficient stock"] }

Responses ==
    { [ok |-> TRUE, message |-> NoMessage] }
    \cup { [ok |-> FALSE, message |-> m] : m \in FailureMessages }

\* variant: the fallback shown whatever the backend said
MessageIgnored(m, fallback) == fallback

\* backendMessage || fallback : undefined and "" are falsy
MessageOr(m, fallback) == IF m.present /\ m.text # "" THEN m.text ELSE fallback

(***************************************************************************)
(* Authentication (AuthContext.jsx, ProtectedRoute.jsx, main.jsx)          *)
(*                                                                         *)
(* A JavaScript value that can end up in `user` is a record [type, v]; an  *)
(* entry of localStorage is a record [present, text] (getItem returns null *)
(* for an absent key and the stored text otherwise).                       *)
(***************************************************************************)
Null == [type |-> "null", v |-> ""]
Undefined == [type |-> "undefined", v |-> ""]
UserObject == [type |-> "object", v |-> "u1"]
Zero == [type |-> "number", v |-> "0"]

\* !x is false for an object; null, undefined and 0 are falsy
Truthy(x) == x.type = "object"

Absent == [present |-> FALSE, text |-> ""]
Stored(text) == [present |-> TRUE, text |-> text]

NoCredentials == [token |-> Absent, user |-> Absent]

\* !localStorage.getItem(key): null and "" are falsy
FalsyItem(item) == ~item.present \/ item.text = ""

\* JSON.stringify(x), then the text setItem stores for it (undefined is
\* stored as "undefined")
JSONStringify(x) ==
    CASE x.type = "object" -> "{" \o x.v \o "}"
      [] x.type = "null" -> "null"
      [] x.type = "number" -> x.v
      [] OTHER -> "undefined"

\* JSON.parse(text): a SyntaxError for a text that is not JSON
JSONParse(text) ==
    CASE text = "{u1}" -> [threw |-> FALSE, value |-> UserObject]
      [] text = "null" -> [threw |-> FALSE, value |-> Null]
      [] text = "0" -> [threw |-> FALSE, value |-> Zero]
      [] OTHER -> [threw |-> TRUE, value |-> Undefined]

\* variant: the stored user parsed whether or not a token is stored
getInitialUserIgnoringToken(st) ==
    IF FalsyItem(st.user)
    THEN [user |-> Null, storage |-> st]
    ELSE LET parsed == JSONParse(st.user.text) IN
         IF parsed.threw
         THEN [user |-> Null, storage |-> NoCredentials]
         ELSE [user |-> parsed.value, storage |-> st]

\* getInitialUser(): the user it returns and localStorage as it leaves it
getInitialUser(st) ==
    IF FalsyItem(st.token) \/ FalsyItem(st.user)
    THEN [user |-> Null, storage |-> st]
    ELSE LET parsed == JSONParse(st.user.text) IN
         IF parsed.threw
         THEN [user |-> Null, storage |-> NoCredentials]
         ELSE [user |-> parsed.value, storage |-> st]

PublicPaths == {"/login", "/register"}

ProtectedPaths == {"/", "/sales/new"}

Paths == PublicPaths \cup ProtectedPaths

\* variant: the route element without its `if (!user)` branch
ProtectedRouteNoUserCheck(ld, usr) == IF ld THEN "Loading" ELSE "Outlet"

\* what ProtectedRoute returns
ProtectedRoute(ld, usr) ==
    IF ld THEN "Loading"
    ELSE IF ~Truthy(usr) THEN "Navigate"
    ELSE "Outlet"

\* what <Routes> renders at a location
Render(ld, usr, path) ==
    CASE path = "/login" -> "LoginPage"
      [] path = "/register" -> "RegisterPage"
      [] OTHER -> ProtectedRoute(ld, usr)

(***************************************************************************)
(* Request interceptor (axiosClient.js)                                    *)
(*                                                                         *)
(* A request configuration is a record [url, headers]; headers is absent   *)
(* or an object whose Authorization entry is absent or a text.             *)
(***************************************************************************)
NoHeaders == [present |-> FALSE, Authorization |-> Absent]

EmptyHeaders == [present |-> TRUE, Authorization |-> Absent]

NoConfig == [url |-> "", headers |-> NoHeaders]

\* variant: the header written whatever the request carries
InterceptorOverwrites(st, cfg) ==
    IF FalsyItem(st.token) THEN cfg
    ELSE [cfg EXCEPT !.headers =
              [present |-> TRUE,
               Authorization |-> Stored("Bearer " \o st.token.text)]]

\* the request interceptor: config as it returns it
Interceptor(st, cfg) ==
    IF FalsyItem(st.token) THEN cfg
    ELSE LET headers == IF cfg.headers.present THEN cfg.headers ELSE EmptyHeaders
         IN IF FalsyItem(headers.Authorization)
            THEN [cfg EXCEPT !.headers =
                      [present |-> TRUE,
                       Authorization |-> Stored("Bearer " \o st.token.text)]]
            ELSE [cfg EXCEPT !.headers = headers]

(***************************************************************************)
(* Invoices list (InvoicesListPage.jsx)                                    *)
(*                                                                         *)
(* The list is a function from invoice ids to statuses, empty until a      *)
(* GET /invoices has succeeded.                                            *)
(***************************************************************************)
InvoiceIds == {"i1", "i2"}

InvoiceStatuses == {"draft", "paid"}

\* useState([]) and useState({})
NoInvoices == [id \in {} |-> ""]

\* data.invoices of an answer of GET /invoices
InvoiceLists == [InvoiceIds -> InvoiceStatuses]

StatusUpdatedMessage == "Invoice status updated."

(***************************************************************************)
(* Sales list (SalesListPage.jsx)                                          *)
(*                                                                         *)
(* A list of sales is kept as the status parameter of the request it       *)
(* answers and whether it has rows.                                        *)
(***************************************************************************)
\* the values of the status filter; "" is All
StatusFilters == {"", "pending", "completed"}

\* useState([])
NoSales == [filter |-> "", rows |-> FALSE, loaded |-> FALSE]

\* res.data.sales || [] of the answer to a request made with status
\* parameter f
SalesAnswers(f) == { [filter |-> f, rows |-> b, loaded |-> TRUE] : b \in BOOLEAN }

(***************************************************************************)
(* State                                                                   *)
(***************************************************************************)
VARIABLES
    customer,         \* useState: customerName, customerEmail, customerPhone, taxPercentage
    items,            \* useState: sequence of {productId, quantity, unitPrice}
    products,         \* useState: product ids of the dropdown
    loadingProducts,  \* useState
    saving,           \* useState: TRUE = Submitting, FALSE = Editing
    error,            \* useState: top-level error message
    success,          \* useState: top-level success message
    fieldErrors,      \* useState: the validation result shown
    inflight,         \* POST /sales requests sent and not yet answered (payloads)
    arrived,          \* answers to POST /sales not yet handled by handleSubmit
    event,            \* what the most recent handler did
    user,             \* AuthProvider useState: the signed-in user or null
    loading,          \* AuthProvider useState: auth state not yet settled
    storage,          \* localStorage entries 'token' and 'user'
    location,         \* the router's current path
    rendered,         \* what <Routes> has on screen
    detached,         \* pending calls of sale form instances torn down since
    config,           \* axios: the configuration of the latest request, as made
    sent,             \* axios: that configuration as the request interceptor returned it
    invoices,         \* InvoicesListPage useState: status of each listed invoice
    editingStatus,    \* InvoicesListPage useState: status selected in each row
    savingStatusId,   \* InvoicesListPage useState
    invLoading,       \* InvoicesListPage useState loading
    invError,         \* InvoicesListPage useState error
    successMessage,   \* InvoicesListPage useState
    invCalls,         \* InvoicesListPage: pending requests, each with the handler awaiting it
    sales,            \* SalesListPage useState: the list shown (which request answered it)
    statusFilter,     \* SalesListPage useState
    salesLoading,     \* SalesListPage useState loading
    salesError,       \* SalesListPage useState error
    salesCalls        \* SalesListPage: pending GET /sales, each with its status parameter

formVars == << customer, items, products, loadingProducts, saving, error,
               success, fieldErrors, inflight, arrived >>

authVars == << user, loading, storage, location, rendered >>

vars == << customer, items, products, loadingProducts, saving, error, success,
           fieldErrors, inflight, arrived, event,
           user, loading, storage, location, rendered, detached,
           config, sent,
           invoices, editingStatus, savingStatusId, invLoading, invError,
           successMessage, invCalls,
           sales, statusFilter, salesLoading, salesError, salesCalls >>

salesListVars == << sales, statusFilter, salesLoading, salesError, salesCalls >>

httpVars == << config, sent >>

invoiceVars == << invoices, editingStatus, savingStatusId, invLoading, invError,
                 successMessage, invCalls >>

\* the state of what is outside the sale form and the session
pageVars == << httpVars, invoiceVars, salesListVars >>

\* the useState initial values of InvoicesListPage, no request pending
InvoicesPageIdle ==
    /\ invoices = NoInvoices
    /\ editingStatus = NoInvoices
    /\ savingStatusId = "undefined"
    /\ invLoading = TRUE
    /\ invError = ""
    /\ successMessage = ""
    /\ invCalls = << >>

\* the useState initial values of SalesListPage, no request pending
SalesListIdle ==
    /\ sales = NoSales
    /\ statusFilter = ""
    /\ salesLoading = TRUE
    /\ salesError = ""
    /\ salesCalls = << >>

\* no request made yet, no other page mounted
PagesIdle ==
    /\ config = NoConfig
    /\ sent = NoConfig
    /\ InvoicesPageIdle
    /\ SalesListIdle

\* The sale form is on screen: a signed-in session at /sales/new.
SignedInAtSaleForm ==
    /\ user = UserObject
    /\ loading = FALSE
    /\ storage = [token |-> Stored("t1"), user |-> Stored(JSONStringify(UserObject))]
    /\ location = "/sales/new"
    /\ rendered = Render(FALSE, UserObject, "/sales/new")

Init ==
    /\ customer = DefaultCustomer
    /\ items = DefaultItems
    /\ products = << >>
    /\ loadingProducts = TRUE
    /\ saving = FALSE
    /\ error = ""
    /\ success = ""
    /\ fieldErrors = NoFieldErrors
    /\ inflight = << >>
    /\ arrived = << >>
    /\ event = "mounted"
    /\ SignedInAtSaleForm
    /\ detached = << >>
    /\ PagesIdle

(***************************************************************************)
(* Product load (useEffect on mount)                                       *)
(***************************************************************************)
\* variant: the effect without its dependency array (a load after every
\* render)
ProductLoadAlwaysPending(ld) == TRUE

\* useEffect(.., []): the one GET /products of the mount is pending until
\* its finally has run
ProductLoadPending(ld) == ld

\* GET /products succeeded with one of `catalogs`: setProducts, then finally
\* setLoadingProducts(false)
FetchProductsFrom(catalogs) ==
    /\ ProductLoadPending(loadingProducts)
    /\ \E c \in catalogs : products' = c
    /\ loadingProducts' = FALSE
    /\ event' = "productsLoaded"
    /\ UNCHANGED << customer, items, saving, error, success, fieldErrors,
                    inflight, arrived >>
    /\ UNCHANGED authVars
    /\ UNCHANGED detached
    /\ UNCHANGED pageVars

FetchProductsOk == FetchProductsFrom({Catalog})

\* GET /products failed: setError(message || fallback), then finally
FetchProductsFailed ==
    /\ ProductLoadPending(loadingProducts)
    /\ \E m \in FailureMessages :
          error' = MessageOr(m, "Failed to load products")
    /\ loadingProducts' = FALSE
    /\ event' = "productsFailed"
    /\ UNCHANGED << customer, items, products, saving, success, fieldErrors,
                    inflight, arrived >>
    /\ UNCHANGED authVars
    /\ UNCHANGED detached
    /\ UNCHANGED pageVars

(***************************************************************************)
(* Editing                                                                 *)
(***************************************************************************)
\* variant: the form rendered during the product load as well
FormRenderedWhileLoading == TRUE

\* The form (inputs, buttons) is rendered only once loadingProducts is false.
FormRendered == ~loadingProducts

\* setCustomer(prev => ({...prev, [name]: value}))
handleCustomerChange(name, value) ==
    /\ FormRendered
    /\ customer' = [customer EXCEPT ![name] = value]
    /\ event' = "customerChanged"
    /\ UNCHANGED << items, products, loadingProducts, saving, error, success,
                    fieldErrors, arrived >>
    /\ inflight' = PendingPayloads(inflight, customer', items')
    /\ UNCHANGED authVars
    /\ UNCHANGED detached
    /\ UNCHANGED pageVars

CustomerEdit ==
    \/ \E v \in NameInputs : handleCustomerChange("customerName", v)
    \/ \E v \in EmailInputs : handleCustomerChange("customerEmail", v)
    \/ \E v \in PhoneInputs : handleCustomerChange("customerPhone", v)
    \/ \E v \in TaxInputs : handleCustomerChange("taxPercentage", v)

\* variant: the field written in every row
ItemsWithInEveryRow(its, index, field, value) ==
    [i \in 1..Len(its) |-> [its[i] EXCEPT ![field] = value]]

\* updated[index] = {...updated[index], [field]: value}
ItemsWith(its, index, field, value) == [its EXCEPT ![index][field] = value]

handleItemChange(index, field, value) ==
    /\ FormRendered
    /\ items' = ItemsWith(items, index, field, value)
    /\ event' = "itemChanged"
    /\ UNCHANGED << customer, products, loadingProducts, saving, error, success,
                    fieldErrors, arrived >>
    /\ inflight' = PendingPayloads(inflight, customer', items')
    /\ UNCHANGED authVars
    /\ UNCHANGED detached
    /\ UNCHANGED pageVars

\* the <option> values of the product select
ProductOptions == {""} \cup {products[i] : i \in 1..Len(products)}

\* one onChange of a row: a <<field, value>> pair out of `inputs`
ItemEditFrom(inputs) ==
    \E index \in 1..Len(items) :
        \E fv \in inputs : handleItemChange(index, fv[1], fv[2])

\* The submission model edits products and quantities; unit prices are
\* edited in the totals model below.
ItemInputs ==
    { <<"productId", v>> : v \in ProductOptions }
    \cup { <<"quantity", v>> : v \in QuantityInputs }

ItemEdit == ItemEditFrom(ItemInputs)

\* the row addItemRow appends
NewItemRow == [productId |-> "", quantity |-> JNum(1), unitPrice |-> JNum(0)]

\* variant: the new row put first
ItemsPrepended(its) == << NewItemRow >> \o its

\* [...prev, {productId: "", quantity: 1, unitPrice: 0}]
ItemsAppended(its) == Append(its, NewItemRow)

addItemRow ==
    /\ FormRendered
    /\ Len(items) < MaxItems
    /\ items' = ItemsAppended(items)
    /\ event' = "itemAdded"
    /\ UNCHANGED << customer, products, loadingProducts, saving, error, success,
                    fieldErrors, arrived >>
    /\ inflight' = PendingPayloads(inflight, customer', items')
    /\ UNCHANGED authVars
    /\ UNCHANGED detached
    /\ UNCHANGED pageVars

\* prev.filter((_, i) => i !== index); index is 1-based here
removeItemRow(its, index) ==
    IF index \notin 1..Len(its) THEN its
    ELSE [i \in 1..(Len(its) - 1) |-> IF i < index THEN its[i] ELSE its[i + 1]]

\* variant: the Remove button rendered for every row (items.length > 0)
RemoveButtonOnEveryRow(its) == Len(its) > 0

\* the Remove button of a row is rendered only when items.length > 1
RemoveButtonRendered(its) == Len(its) > 1

RemoveItem ==
    /\ FormRendered
    /\ RemoveButtonRendered(items)
    /\ \E index \in 1..Len(items) : items' = removeItemRow(items, index)
    /\ event' = "itemRemoved"
    /\ UNCHANGED << customer, products, loadingProducts, saving, error, success,
                    fieldErrors, arrived >>
    /\ inflight' = PendingPayloads(inflight, customer', items')
    /\ UNCHANGED authVars
    /\ UNCHANGED detached
    /\ UNCHANGED pageVars

(***************************************************************************)
(* Submission                                                              *)
(***************************************************************************)
\* variant: the submit button without its disabled attribute
SubmitButtonNeverDisabled == TRUE

\* <button type="submit" disabled={saving}>: a disabled submit button
\* dispatches no submit event (clicks and implicit submission alike)
SubmitButtonEnabled == ~saving

SuccessMessage == "Sale created successfully"

SubmitFallbackMessage == "Failed to creaete sale. please try again."

\* variant: the handler goes on whatever validate returned
SubmissionProceedsAlways(v) == TRUE

\* if (!validate()) return;
SubmissionProceeds(v) == v.valid

\* handleSubmit up to its await: clear the messages, validate, and for a
\* valid draft set saving, build the payload and send POST /sales.  A
\* TypeError raised by validate leaves the async handler as a rejected
\* promise that nothing handles.
handleSubmit ==
    /\ FormRendered
    /\ SubmitButtonEnabled
    /\ error' = ""
    /\ success' = ""
    /\ LET v == validate(customer, items) IN
          IF v.threw
          THEN /\ event' = "submitThrew"
               /\ UNCHANGED << fieldErrors, saving, inflight >>
          ELSE /\ fieldErrors' = v.errors
               /\ IF SubmissionProceeds(v)
                  THEN /\ saving' = TRUE
                       /\ inflight' = Append(inflight, BuildPayload(customer, items))
                       /\ event' = "submitSent"
                  ELSE /\ event' = "submitInvalid"
                       /\ UNCHANGED << saving, inflight >>
    /\ UNCHANGED << customer, items, products, loadingProducts, arrived >>
    /\ UNCHANGED authVars
    /\ UNCHANGED detached
    /\ UNCHANGED pageVars

\* The backend (or the transport) completes a pending POST /sales.
BackendResponds ==
    /\ inflight # << >>
    /\ \E r \in Responses : arrived' = Append(arrived, r)
    /\ inflight' = Tail(inflight)
    /\ UNCHANGED << customer, items, products, loadingProducts, saving, error,
                    success, fieldErrors, event >>
    /\ UNCHANGED authVars
    /\ UNCHANGED detached
    /\ UNCHANGED pageVars

\* setCustomer({...}) and setItems([...]) of the success path
\* variant: the success path clears the name only
ResetCustomerNameOnly == [customer EXCEPT !.customerName = EmptyText]

ResetCustomer ==
    [customerName |-> EmptyText, customerEmail |-> EmptyText,
     customerPhone |-> EmptyText, taxPercentage |-> JNum(0)]

\* variant: setItems([]) on success
ResetItemsEmpty == << >>

ResetItems == << [productId |-> "", quantity |-> JNum(1), unitPrice |-> JNum(0)] >>

\* variant: setSaving(false) on the success path only, no finally
SavingAfterCompletionNoFinally(ok) == ~ok

\* finally { setSaving(false) }: the value of saving once the call has
\* completed, ok or not
SavingAfterCompletion(ok) == FALSE

\* handleSubmit after the await, success path, then finally
SaleCreated ==
    /\ arrived # << >>
    /\ Head(arrived).ok
    /\ success' = SuccessMessage
    /\ fieldErrors' = NoFieldErrors
    /\ customer' = ResetCustomer
    /\ items' = ResetItems
    /\ saving' = SavingAfterCompletion(TRUE)
    /\ arrived' = Tail(arrived)
    /\ event' = "saleCreated"
    /\ UNCHANGED << products, loadingProducts, error, inflight >>
    /\ UNCHANGED authVars
    /\ UNCHANGED detached
    /\ UNCHANGED pageVars

\* variant: the catch block resets the form as the success path does
DraftResetAfterFailure(cust, its) == << ResetCustomer, ResetItems >>

\* what the catch block leaves in customer and items
DraftAfterFailure(cust, its) == << cust, its >>

\* handleSubmit after the await, catch path, then finally
SaleFailed ==
    /\ arrived # << >>
    /\ ~Head(arrived).ok
    /\ error' = MessageOr(Head(arrived).message, SubmitFallbackMessage)
    /\ customer' = DraftAfterFailure(customer, items)[1]
    /\ items' = DraftAfterFailure(customer, items)[2]
    /\ saving' = SavingAfterCompletion(FALSE)
    /\ arrived' = Tail(arrived)
    /\ event' = "saleFailed"
    /\ UNCHANGED << products, loadingProducts, success, fieldErrors, inflight >>
    /\ UNCHANGED authVars
    /\ UNCHANGED detached
    /\ UNCHANGED pageVars

Next ==
    \/ FetchProductsOk
    \/ FetchProductsFailed
    \/ CustomerEdit
    \/ ItemEdit
    \/ addItemRow
    \/ RemoveItem
    \/ handleSubmit
    \/ BackendResponds
    \/ SaleCreated
    \/ SaleFailed

Spec == Init /\ [][Next]_vars

\* The continuation of an awaited call runs once the call has completed.
LiveSpec == Spec /\ WF_vars(SaleCreated) /\ WF_vars(SaleFailed)

(***************************************************************************)
(* validate as a function of the draft                                     *)
(*                                                                         *)
(* The drafts are drawn from bounded sets, the empty items sequence        *)
(* included (validate has a rule for it, though the form never shows it),  *)
(* and the submit handler is run on them.                                  *)
(***************************************************************************)
ValidateNames == { << >>, <<" ">>, <<" ", "J">> }

ValidateEmails ==
    { << >>, <<"a", "@", "b">>, <<"a", "@", "b", ".", "c">>,
      <<" ", "a", "@", "b", ".", "c">> }

ValidateTaxes ==
    { JNum(0), JStr(<<"1", "0", "0">>), JStr(<<"1", "0", "1">>), JStr(<<"-", "1">>) }

ValidateItemValues ==
    [productId : {"", "p1"},
     quantity : {JNum(1), JStr(<<"0">>), JStr(<< >>)},
     unitPrice : {JNum(0), JStr(<< >>)}]

ValidateItemSeqs == UNION { [1..n -> ValidateItemValues] : n \in 0..MaxItems }

InitValidate ==
    /\ customer \in [customerName : ValidateNames, customerEmail : ValidateEmails,
                     customerPhone : {EmptyText}, taxPercentage : ValidateTaxes]
    /\ items \in ValidateItemSeqs
    /\ products = Catalog
    /\ loadingProducts = FALSE
    /\ saving = FALSE
    /\ error = ""
    /\ success = ""
    /\ fieldErrors = NoFieldErrors
    /\ inflight = << >>
    /\ arrived = << >>
    /\ event = "mounted"
    /\ SignedInAtSaleForm
    /\ detached = << >>
    /\ PagesIdle

NextValidate ==
    \/ handleSubmit
    \/ BackendResponds
    \/ SaleCreated
    \/ SaleFailed

SpecValidate == InitValidate /\ [][NextValidate]_vars

(***************************************************************************)
(* The live totals as a function of the draft                              *)
(***************************************************************************)
TotalsQuantities == { JNum(1), JNum(2), JStr(<<"2">>), JStr(<<"0">>), JStr(<< >>) }

TotalsUnitPrices ==
    { JNum(0), JNum(5), JNum(20), JStr(<<"5">>), JStr(<<"x">>) }

TotalsTaxes ==
    { JNum(0), JNum(10), JStr(<<"1", "0", "0">>), JStr(<< >>), JStr(<<"x">>) }

TotalsItemValues ==
    [productId : {"p1"}, quantity : TotalsQuantities, unitPrice : TotalsUnitPrices]

TotalsItemSeqs == UNION { [1..n -> TotalsItemValues] : n \in 1..MaxItems }

InitTotals ==
    /\ customer \in [customerName : {EmptyText}, customerEmail : {EmptyText},
                     customerPhone : {EmptyText}, taxPercentage : TotalsTaxes]
    /\ items \in TotalsItemSeqs
    /\ products = Catalog
    /\ loadingProducts = FALSE
    /\ saving = FALSE
    /\ error = ""
    /\ success = ""
    /\ fieldErrors = NoFieldErrors
    /\ inflight = << >>
    /\ arrived = << >>
    /\ event = "mounted"
    /\ SignedInAtSaleForm
    /\ detached = << >>
    /\ PagesIdle

TotalsItemInputs ==
    { <<"quantity", v>> : v \in TotalsQuantities }
    \cup { <<"unitPrice", v>> : v \in TotalsUnitPrices }

TotalsItemEdit == ItemEditFrom(TotalsItemInputs)

TotalsTaxEdit == \E v \in TotalsTaxes : handleCustomerChange("taxPercentage", v)

NextTotals ==
    \/ TotalsItemEdit
    \/ TotalsTaxEdit
    \/ addItemRow
    \/ RemoveItem

SpecTotals == InitTotals /\ [][NextTotals]_vars

(***************************************************************************)
(* The payload as a function of the draft                                  *)
(*                                                                         *)
(* Drafts whose values are held as numbers (the useState defaults) or as   *)
(* the text of an <input> (after an onChange), with and without outer      *)
(* spaces; the submit handler is run on them.                              *)
(***************************************************************************)
PayloadNames == { <<" ", "J">>, <<"J", " ">> }

PayloadEmails == { <<" ", "a", "@", "b", ".", "c">> }

PayloadPhones == { << >>, <<" ", "5", " ">> }

PayloadTaxes == { JNum(0), JStr(<<"1", "0">>) }

PayloadItemValues ==
    [productId : {"p1"},
     quantity : {JNum(1), JStr(<<"2">>), JStr(<<"0">>)},
     unitPrice : {JNum(0), JStr(<<"5">>), JStr(<< >>)}]

PayloadItemSeqs == UNION { [1..n -> PayloadItemValues] : n \in 1..MaxItems }

InitPayload ==
    /\ customer \in [customerName : PayloadNames, customerEmail : PayloadEmails,
                     customerPhone : PayloadPhones, taxPercentage : PayloadTaxes]
    /\ items \in PayloadItemSeqs
    /\ products = Catalog
    /\ loadingProducts = FALSE
    /\ saving = FALSE
    /\ error = ""
    /\ success = ""
    /\ fieldErrors = NoFieldErrors
    /\ inflight = << >>
    /\ arrived = << >>
    /\ event = "mounted"
    /\ SignedInAtSaleForm
    /\ detached = << >>
    /\ PagesIdle

SpecPayload == InitPayload /\ [][NextValidate]_vars

(***************************************************************************)
(* Sessions: page loads, sign-in, sign-out and navigation                  *)
(*                                                                         *)
(* A page load starts from whatever localStorage holds.  The sale form is  *)
(* left at its construction values.                                        *)
(***************************************************************************)
StoredTokens == { Absent, Stored(""), Stored("t1"), Stored("undefined") }

StoredUsers ==
    { Absent, Stored(""), Stored("{u1}"), Stored("null"), Stored("0"),
      Stored("undefined") }

\* res.data.token and res.data.user of a sign-in answer; setItem stores the
\* text "undefined" for a missing token
LoginTokens == { "t1", "undefined" }

LoginUsers == { UserObject, Null, Undefined }

\* AuthProvider mounts at a path: useState(getInitialUser), loading true
PageLoad(st, path) ==
    LET r == getInitialUser(st) IN
    /\ user' = r.user
    /\ storage' = r.storage
    /\ loading' = TRUE
    /\ location' = path
    /\ rendered' = Render(TRUE, r.user, path)

InitAuth ==
    /\ customer = DefaultCustomer
    /\ items = DefaultItems
    /\ products = << >>
    /\ loadingProducts = TRUE
    /\ saving = FALSE
    /\ error = ""
    /\ success = ""
    /\ fieldErrors = NoFieldErrors
    /\ inflight = << >>
    /\ arrived = << >>
    /\ event = "pageLoaded"
    /\ detached = << >>
    /\ PagesIdle
    /\ \E st \in [token : StoredTokens, user : StoredUsers] : \E path \in Paths :
          LET r == getInitialUser(st) IN
          /\ user = r.user
          /\ storage = r.storage
          /\ loading = TRUE
          /\ location = path
          /\ rendered = Render(TRUE, r.user, path)

\* <Navigate to="/login" replace /> navigates in its effect, right after the
\* render that returned it: nothing else happens in between.
RedirectPending == rendered = "Navigate"

\* useEffect(() => setLoading(false), [])
AuthEffect ==
    /\ loading
    /\ ~RedirectPending
    /\ loading' = FALSE
    /\ rendered' = Render(FALSE, user, location)
    /\ event' = "authSettled"
    /\ UNCHANGED << user, storage, location >>
    /\ UNCHANGED formVars
    /\ UNCHANGED detached
    /\ UNCHANGED pageVars

\* login({token, user}) followed by navigate("/"), as the login and register
\* pages do once the backend has answered
login(token, usr) ==
    /\ rendered \in {"LoginPage", "RegisterPage"}
    /\ storage' = [token |-> Stored(token), user |-> Stored(JSONStringify(usr))]
    /\ user' = usr
    /\ location' = "/"
    /\ rendered' = Render(loading, usr, "/")
    /\ event' = "loggedIn"
    /\ UNCHANGED loading
    /\ UNCHANGED formVars
    /\ UNCHANGED detached
    /\ UNCHANGED pageVars

Login == \E token \in LoginTokens : \E usr \in LoginUsers : login(token, usr)

\* logout(), from the button of a protected page
logout ==
    /\ rendered = "Outlet"
    /\ storage' = NoCredentials
    /\ user' = Null
    /\ rendered' = Render(loading, Null, location)
    /\ event' = "loggedOut"
    /\ UNCHANGED << loading, location >>
    /\ UNCHANGED formVars
    /\ UNCHANGED detached
    /\ UNCHANGED pageVars

\* the effect of <Navigate to="/login" replace />
Redirect ==
    /\ RedirectPending
    /\ location' = "/login"
    /\ rendered' = Render(loading, user, "/login")
    /\ event' = "redirected"
    /\ UNCHANGED << user, loading, storage >>
    /\ UNCHANGED formVars
    /\ UNCHANGED detached
    /\ UNCHANGED pageVars

\* a client-side navigation (link, history) to another path
GoTo ==
    /\ ~RedirectPending
    /\ \E path \in Paths \ {location} :
          /\ location' = path
          /\ rendered' = Render(loading, user, path)
    /\ event' = "navigated"
    /\ UNCHANGED << user, loading, storage >>
    /\ UNCHANGED formVars
    /\ UNCHANGED detached
    /\ UNCHANGED pageVars

\* the page is loaded again (reload, address bar)
Reload ==
    /\ ~RedirectPending
    /\ \E path \in Paths : PageLoad(storage, path)
    /\ event' = "pageLoaded"
    /\ UNCHANGED formVars
    /\ UNCHANGED detached
    /\ UNCHANGED pageVars

NextAuth ==
    \/ AuthEffect
    \/ Login
    \/ logout
    \/ Redirect
    \/ GoTo
    \/ Reload

SpecAuth == InitAuth /\ [][NextAuth]_vars

(***************************************************************************)
(* Form sessions: the sale form is left and entered again                  *)
(*                                                                         *)
(* Leaving /sales/new unmounts SalesCreatePage; nothing cancels its        *)
(* pending calls, whose continuations run later on the setters of the      *)
(* unmounted instance.  Entering it again mounts a new instance.           *)
(***************************************************************************)
\* Most pending calls of torn-down instances the model keeps track of.
MaxDetached == 2

SessionCatalogs == { <<"p1">>, <<"p1", "p2">> }

FormMounted == location = "/sales/new" /\ rendered = "Outlet"

\* the useState initial values of a SalesCreatePage instance
ConstructForm ==
    /\ customer' = DefaultCustomer
    /\ items' = DefaultItems
    /\ products' = << >>
    /\ loadingProducts' = TRUE
    /\ saving' = FALSE
    /\ error' = ""
    /\ success' = ""
    /\ fieldErrors' = NoFieldErrors
    /\ inflight' = << >>
    /\ arrived' = << >>

\* the calls of the mounted instance that have not been handled yet
PendingOfInstance ==
    (IF loadingProducts THEN << [call |-> "products"] >> ELSE << >>)
    \o [k \in 1..(Len(inflight) + Len(arrived)) |-> [call |-> "sale"]]

\* navigation from /sales/new to the dashboard: the instance is unmounted
\* with its calls pending
LeaveSaleForm ==
    /\ FormMounted
    /\ Len(detached) + Len(PendingOfInstance) <= MaxDetached
    /\ detached' = detached \o PendingOfInstance
    /\ ConstructForm
    /\ location' = "/"
    /\ rendered' = Render(loading, user, "/")
    /\ event' = "tornDown"
    /\ UNCHANGED << user, loading, storage >>
    /\ UNCHANGED pageVars

\* navigation to /sales/new: a new instance with its own state and its own
\* GET /products
MountSaleForm ==
    /\ ~FormMounted
    /\ rendered = "Outlet"
    /\ ConstructForm
    /\ location' = "/sales/new"
    /\ rendered' = Render(loading, user, "/sales/new")
    /\ event' = "mounted"
    /\ UNCHANGED << user, loading, storage, detached >>
    /\ UNCHANGED pageVars

\* variant: the setters of a torn-down instance write into the state of
\* the form that is on screen
DetachedSetterWrites(current, value) == value

\* A setter returned by useState belongs to its component instance; React
\* (createRoot) drops, silently, an update of an unmounted instance.
DetachedSetter(current, value) == current

Without(seq, k) ==
    [i \in 1..(Len(seq) - 1) |-> IF i < k THEN seq[i] ELSE seq[i + 1]]

\* the continuation of a pending call of a torn-down instance: the code
\* after the await of handleSubmit (lines 272-292) or of fetchProducts
\* (lines 149-156)
DetachedCompletes ==
    /\ detached # << >>
    /\ \E k \in 1..Len(detached) : \E r \in Responses : \E c \in SessionCatalogs :
          /\ detached' = Without(detached, k)
          /\ IF detached[k].call = "sale"
             THEN IF r.ok
                  THEN /\ success' = DetachedSetter(success, SuccessMessage)
                       /\ fieldErrors' = DetachedSetter(fieldErrors, NoFieldErrors)
                       /\ customer' = DetachedSetter(customer, ResetCustomer)
                       /\ items' = DetachedSetter(items, ResetItems)
                       /\ saving' = DetachedSetter(saving, FALSE)
                       /\ UNCHANGED << error, products, loadingProducts >>
                  ELSE /\ error' = DetachedSetter(error,
                                      MessageOr(r.message, SubmitFallbackMessage))
                       /\ saving' = DetachedSetter(saving, FALSE)
                       /\ UNCHANGED << success, fieldErrors, customer, items,
                                       products, loadingProducts >>
             ELSE IF r.ok
                  THEN /\ products' = DetachedSetter(products, c)
                       /\ loadingProducts' = DetachedSetter(loadingProducts, FALSE)
                       /\ UNCHANGED << error, success, fieldErrors, customer,
                                       items, saving >>
                  ELSE /\ error' = DetachedSetter(error,
                                      MessageOr(r.message, "Failed to load products"))
                       /\ loadingProducts' = DetachedSetter(loadingProducts, FALSE)
                       /\ UNCHANGED << products, success, fieldErrors, customer,
                                       items, saving >>
    /\ event' = "detachedHandled"
    /\ UNCHANGED << inflight, arrived >>
    /\ UNCHANGED authVars
    /\ UNCHANGED pageVars

SessionCustomerEdit ==
    \/ \E v \in NameInputs : handleCustomerChange("customerName", v)
    \/ \E v \in EmailInputs : handleCustomerChange("customerEmail", v)

SessionItemEdit ==
    ItemEditFrom({ <<"productId", v>> : v \in ProductOptions })

NextSession ==
    \/ FormMounted /\ FetchProductsFrom(SessionCatalogs)
    \/ FormMounted /\ FetchProductsFailed
    \/ FormMounted /\ SessionCustomerEdit
    \/ FormMounted /\ SessionItemEdit
    \/ FormMounted /\ handleSubmit
    \/ FormMounted /\ BackendResponds
    \/ FormMounted /\ SaleCreated
    \/ FormMounted /\ SaleFailed
    \/ LeaveSaleForm
    \/ MountSaleForm
    \/ DetachedCompletes

SpecSession == Init /\ [][NextSession]_vars

\* The GET /products of a mounted form completes, with an answer or with a
\* failure, and the continuation of its await runs.
LiveSpecSession ==
    SpecSession
    /\ WF_vars(FormMounted /\ (FetchProductsFrom(SessionCatalogs) \/ FetchProductsFailed))

(***************************************************************************)
(* Requests: any page makes a request at any time of a session             *)
(***************************************************************************)
RequestConfigs ==
    [url : {"/sales"},
     headers : { NoHeaders, EmptyHeaders,
                 [present |-> TRUE, Authorization |-> Stored("")],
                 [present |-> TRUE, Authorization |-> Stored("Basic x")] }]

\* axiosClient.get / post: the request passes the interceptor
SendRequest ==
    /\ ~RedirectPending
    /\ \E cfg \in RequestConfigs :
          /\ config' = cfg
          /\ sent' = Interceptor(storage, cfg)
    /\ event' = "requestSent"
    /\ UNCHANGED formVars
    /\ UNCHANGED authVars
    /\ UNCHANGED detached
    /\ UNCHANGED invoiceVars
    /\ UNCHANGED salesListVars

NextRequests ==
    \/ NextAuth
    \/ SendRequest

SpecRequests == InitAuth /\ [][NextRequests]_vars

(***************************************************************************)
(* Invoices list: the list load and the status saves                       *)
(*                                                                         *)
(* Each pending request is kept with the handler that awaits it: "fetch"   *)
(* is the GET /invoices of the mount, "update" the PUT /invoices/:id of a  *)
(* status save, "refetch" the GET /invoices that save goes on with.        *)
(***************************************************************************)
\* Most requests of the invoices list pending at a time in the model.
MaxInvoiceCalls == 3

InitInvoices ==
    /\ customer = DefaultCustomer
    /\ items = DefaultItems
    /\ products = << >>
    /\ loadingProducts = TRUE
    /\ saving = FALSE
    /\ error = ""
    /\ success = ""
    /\ fieldErrors = NoFieldErrors
    /\ inflight = << >>
    /\ arrived = << >>
    /\ event = "mounted"
    /\ user = UserObject
    /\ loading = FALSE
    /\ storage = [token |-> Stored("t1"), user |-> Stored(JSONStringify(UserObject))]
    /\ location = "/invoices"
    /\ rendered = Render(FALSE, UserObject, "/invoices")
    /\ detached = << >>
    /\ config = NoConfig
    /\ sent = NoConfig
    /\ invoices = NoInvoices
    /\ editingStatus = NoInvoices
    /\ savingStatusId = "undefined"
    /\ invLoading = TRUE
    /\ invError = ""
    /\ successMessage = ""
    /\ invCalls = << [kind |-> "fetch", id |-> ""] >>
    /\ SalesListIdle

\* the table is rendered unless the list is empty and loading
InvoiceRowsShown == invoices # NoInvoices

\* setEditingStatus(prev => ({...prev, [invoiceId]: newStatus}))
handleStatusSelectChange(id, status) ==
    /\ InvoiceRowsShown
    /\ editingStatus' = [editingStatus EXCEPT ![id] = status]
    /\ event' = "statusSelected"
    /\ UNCHANGED << invoices, savingStatusId, invLoading, invError,
                    successMessage, invCalls >>
    /\ UNCHANGED << formVars, authVars, detached, httpVars, salesListVars >>

StatusSelect ==
    \E id \in InvoiceIds : \E status \in InvoiceStatuses :
        handleStatusSelectChange(id, status)

\* <button disabled={savingStatusId === inv._id}>
SaveButtonEnabled(id) == savingStatusId # id

\* handleSaveStatus up to its first await; it returns at once when the
\* selected status is unset or the invoice's own
handleSaveStatus(id) ==
    /\ InvoiceRowsShown
    /\ SaveButtonEnabled(id)
    /\ id \in DOMAIN editingStatus
    /\ editingStatus[id] # invoices[id]
    /\ Len(invCalls) < MaxInvoiceCalls
    /\ invError' = ""
    /\ successMessage' = ""
    /\ savingStatusId' = id
    /\ invCalls' = Append(invCalls, [kind |-> "update", id |-> id])
    /\ event' = "statusSaveStarted"
    /\ UNCHANGED << invoices, editingStatus, invLoading >>
    /\ UNCHANGED << formVars, authVars, detached, httpVars, salesListVars >>

SaveStatus == \E id \in InvoiceIds : handleSaveStatus(id)

\* PUT /invoices/:id completes.  Success: handleSaveStatus goes on into
\* fetchInvoices up to its await (setError(""), setLoading(true), GET).
\* Failure: catch (setError) and finally (setSavingStatusId(null)).
UpdateCompletes ==
    \E k \in 1..Len(invCalls) : \E r \in Responses :
        /\ invCalls[k].kind = "update"
        /\ IF r.ok
           THEN /\ invError' = ""
                /\ invLoading' = TRUE
                /\ invCalls' = [invCalls EXCEPT ![k].kind = "refetch"]
                /\ event' = "statusUpdated"
                /\ UNCHANGED savingStatusId
           ELSE /\ invError' = MessageOr(r.message, "Failed to update invoice status.")
                /\ savingStatusId' = "null"
                /\ invCalls' = Without(invCalls, k)
                /\ event' = "statusSaveFailed"
                /\ UNCHANGED invLoading
        /\ UNCHANGED << invoices, editingStatus, successMessage >>
        /\ UNCHANGED << formVars, authVars, detached, httpVars, salesListVars >>

\* GET /invoices completes: the rest of fetchInvoices (try or catch, then
\* finally), and for the refetch of a status save the rest of
\* handleSaveStatus (setSuccessMessage, then finally), fetchInvoices having
\* returned normally either way.
FetchInvoicesCompletes ==
    \E k \in 1..Len(invCalls) : \E r \in Responses : \E list \in InvoiceLists :
        /\ invCalls[k].kind \in {"fetch", "refetch"}
        /\ IF r.ok
           THEN /\ invoices' = list
                /\ editingStatus' = list
                /\ UNCHANGED invError
           ELSE /\ invError' = MessageOr(r.message, "Failed to load invoices")
                /\ UNCHANGED << invoices, editingStatus >>
        /\ invLoading' = FALSE
        /\ IF invCalls[k].kind = "refetch"
           THEN /\ successMessage' = StatusUpdatedMessage
                /\ savingStatusId' = "null"
                /\ event' = IF r.ok THEN "statusSaved" ELSE "statusSavedRefetchFailed"
           ELSE /\ UNCHANGED << successMessage, savingStatusId >>
                /\ event' = IF r.ok THEN "invoicesLoaded" ELSE "invoicesFailed"
        /\ invCalls' = Without(invCalls, k)
        /\ UNCHANGED << formVars, authVars, detached, httpVars, salesListVars >>

NextInvoices ==
    \/ StatusSelect
    \/ SaveStatus
    \/ UpdateCompletes
    \/ FetchInvoicesCompletes

SpecInvoices == InitInvoices /\ [][NextInvoices]_vars

(***************************************************************************)
(* Sales list: the list load and the status filter                         *)
(***************************************************************************)
\* Most GET /sales pending at a time in the model.
MaxSalesCalls == 3

InitSalesList ==
    /\ customer = DefaultCustomer
    /\ items = DefaultItems
    /\ products = << >>
    /\ loadingProducts = TRUE
    /\ saving = FALSE
    /\ error = ""
    /\ success = ""
    /\ fieldErrors = NoFieldErrors
    /\ inflight = << >>
    /\ arrived = << >>
    /\ event = "mounted"
    /\ user = UserObject
    /\ loading = FALSE
    /\ storage = [token |-> Stored("t1"), user |-> Stored(JSONStringify(UserObject))]
    /\ location = "/sales"
    /\ rendered = Render(FALSE, UserObject, "/sales")
    /\ detached = << >>
    /\ config = NoConfig
    /\ sent = NoConfig
    /\ InvoicesPageIdle
    /\ sales = NoSales
    /\ statusFilter = ""
    /\ salesLoading = TRUE
    /\ salesError = ""
    /\ salesCalls = << [filter |-> ""] >>

\* the page (filter included) is rendered unless the list is empty and
\* loading
SalesPageShown == ~(salesLoading /\ ~sales.rows)

\* the filter select changes: setStatusFilter, then the effect on
\* [statusFilter] runs fetchSales(1) up to its await, with the new filter
\* as status parameter
handleStatusChange(f) ==
    /\ SalesPageShown
    /\ f # statusFilter
    /\ Len(salesCalls) < MaxSalesCalls
    /\ statusFilter' = f
    /\ salesError' = ""
    /\ salesLoading' = TRUE
    /\ salesCalls' = Append(salesCalls, [filter |-> f])
    /\ event' = "filterChanged"
    /\ UNCHANGED sales
    /\ UNCHANGED << formVars, authVars, detached, httpVars, invoiceVars >>

StatusFilterChange == \E f \in StatusFilters : handleStatusChange(f)

\* a GET /sales completes, in any order: the rest of fetchSales (try or
\* catch, then finally)
FetchSalesCompletes ==
    \E k \in 1..Len(salesCalls) : \E r \in Responses :
        /\ IF r.ok
           THEN /\ \E list \in SalesAnswers(salesCalls[k].filter) : sales' = list
                /\ event' = "salesLoaded"
                /\ UNCHANGED salesError
           ELSE /\ salesError' = MessageOr(r.message, "Failed to load sales")
                /\ event' = "salesFailed"
                /\ UNCHANGED sales
        /\ salesLoading' = FALSE
        /\ salesCalls' = Without(salesCalls, k)
        /\ UNCHANGED statusFilter
        /\ UNCHANGED << formVars, authVars, detached, httpVars, invoiceVars >>

NextSalesList ==
    \/ StatusFilterChange
    \/ FetchSalesCompletes

SpecSalesList == InitSalesList /\ [][NextSalesList]_vars

(***************************************************************************)
(* Properties of the sale form                                             *)
(***************************************************************************)
\* A POST /sales is pending from its send until handleSubmit has handled
\* its answer.
PendingCalls == Len(inflight) + Len(arrived)

\* C1: duplicate-submit guard.  At most one POST /sales is pending at any
\* time, and one is pending exactly while the form is Submitting, so a
\* submit trigger during Submitting adds no request.
C1_SingleSubmissionInFlight ==
    /\ PendingCalls <= 1
    /\ saving <=> PendingCalls = 1

\* a request is out and the submit button is disabled
C1_Witness == saving /\ Len(inflight) = 1 /\ ~SubmitButtonEnabled

\* C2: the draft always holds at least one line item.
C2_AtLeastOneItem == Len(items) >= 1

\* back to one row after the post-success reset
C2_Witness == event = "saleCreated" /\ Len(items) = 1

\* C3 as stated: removeLineItem(0) on a one-item sequence leaves it
\* unchanged (index 0 of the code is index 1 here).
C3_RemoveRefusedOnLastItem ==
    (FormRendered /\ Len(items) = 1) => removeItemRow(items, 1) = items

\* C3 amended: removal is unavailable, not refused, when one item remains;
\* from a one-item draft no step of the form shortens the sequence.
C3_NoRemovalOfLastItem ==
    [][Len(items) = 1 => Len(items') >= Len(items)]_vars

\* a removal brought the draft down to one row
C3_Witness == event = "itemRemoved" /\ Len(items) = 1

\* A draft that breaks one of the rules validate checks.
DraftViolatesRule(cust, its) ==
    \/ NameBlank(cust)
    \/ EmailBlank(cust)
    \/ EmailMalformed(cust)
    \/ TaxOutOfRange(cust)
    \/ its = << >>
    \/ \E i \in 1..Len(its) : DOMAIN ItemErrorsOf(its[i]) # {}

\* C5: a submit attempt on a draft that breaks a rule sends nothing and
\* leaves the form in Editing: a request goes out only for a draft that
\* breaks no rule, and after a blocked attempt nothing is pending.
C5_InvalidSubmitBlocked ==
    /\ event = "submitSent" => ~DraftViolatesRule(customer, items)
    /\ event \in {"submitThrew", "submitInvalid"} =>
          (~saving /\ PendingCalls = 0)

\* a submit attempt was blocked on a row error
C5_Witness ==
    event = "submitInvalid" /\ fieldErrors.itemErrors # << >> /\ ~saving

\* C6: the form starts in Editing, enters Submitting only by a submit
\* attempt on a draft that passed validation, leaves it only when the call
\* is handled, and every Submitting state whose call has completed is
\* followed by Editing.
C6_SubmitStateMachine ==
    /\ ~saving
    /\ [][(~saving /\ saving') =>
            (event' = "submitSent" /\ ~DraftViolatesRule(customer, items))]_vars
    /\ [][(saving /\ ~saving') => event' \in {"saleCreated", "saleFailed"}]_vars
    /\ (saving /\ arrived # << >>) ~> ~saving

\* Submitting, and the answer to the call is there
C6_Witness == saving /\ arrived # << >> /\ event = "submitSent"

\* the step in which handleSubmit handles a failed call
FailureHandled ==
    arrived # << >> /\ ~Head(arrived).ok /\ arrived' = Tail(arrived)

\* C7: handling a failed call leaves customer fields, tax and items as
\* they were.
C7_DraftPreservedOnFailure ==
    [][FailureHandled => (customer' = customer /\ items' = items)]_vars

\* a failure was handled and the edited draft is still there
C7_Witness ==
    event = "saleFailed" /\ customer.customerName # EmptyText /\ ~saving

\* C8: after a failed call the error message is the backend's message when
\* the failure carries a (non-empty) one and the fallback otherwise; it is
\* never empty and the success message is empty.
C8_FailureMessage ==
    [][FailureHandled =>
         LET m == Head(arrived).message IN
           /\ (m.present /\ m.text # "") => error' = m.text
           /\ ~(m.present /\ m.text # "") =>
                 error' = "Failed to creaete sale. please try again."
           /\ error' # ""
           /\ success' = ""]_vars

\* the backend's message is on screen
C8_Witness == event = "saleFailed" /\ error = "Insufficient stock"

\* C9: after a successful call the draft is the empty default, the
\* validation result is empty and a success message is set.
C9_ResetAfterSuccess ==
    event = "saleCreated" =>
        /\ customer = [customerName |-> << >>, customerEmail |-> << >>,
                       customerPhone |-> << >>, taxPercentage |-> JNum(0)]
        /\ items = << [productId |-> "", quantity |-> JNum(1),
                       unitPrice |-> JNum(0)] >>
        /\ fieldErrors = NoFieldErrors
        /\ success # ""
        /\ error = ""

\* the success message is on screen over the reset draft
C9_Witness ==
    event = "saleCreated" /\ success = SuccessMessage /\ customer = ResetCustomer

\* a successful answer is about to be handled for a draft edited, since it
\* was sent, into one that breaks a rule
EditedWhilePending ==
    arrived # << >> /\ Head(arrived).ok /\ DraftViolatesRule(customer, items)

(***************************************************************************)
(* Properties of validate                                                  *)
(***************************************************************************)
SubmitAttempted == event \in {"submitThrew", "submitInvalid", "submitSent"}

\* C4: validate collects every violation: after a submit attempt on a
\* draft with a blank name, a blank or malformed email, a tax outside
\* [0, 100] and no items, the validation result holds the four keys
\* customerName, customerEmail, taxPercentage and items.
C4_ValidateCollectsAllFour ==
    ( /\ SubmitAttempted
      /\ NameBlank(customer)
      /\ (EmailBlank(customer) \/ EmailMalformed(customer))
      /\ TaxOutOfRange(customer)
      /\ items = << >> )
    => {"customerName", "customerEmail", "taxPercentage", "items"}
          \subseteq ErrorKeys(fieldErrors)

(***************************************************************************)
(* Properties of the totals                                                *)
(***************************************************************************)
\* a number, or the text of one
IsNumeric(v) == v.tag = "num" \/ (Trim(v.s) # << >> /\ ~Number(v).nan)

DraftNumeric(cust, its) ==
    /\ IsNumeric(cust.taxPercentage)
    /\ \A i \in 1..Len(its) :
          IsNumeric(its[i].quantity) /\ IsNumeric(its[i].unitPrice)

RECURSIVE SumOfProducts(_)
SumOfProducts(its) ==
    IF its = << >> THEN 0
    ELSE Number(Head(its).quantity).n * Number(Head(its).unitPrice).n
         + SumOfProducts(Tail(its))

TwoItemExample ==
    << [productId |-> "p1", quantity |-> JNum(2), unitPrice |-> JNum(5)],
       [productId |-> "p1", quantity |-> JNum(1), unitPrice |-> JNum(20)] >>

\* C10: for a draft of numeric values, subtotal is the sum of quantity *
\* unitPrice, taxAmount is subtotal * taxPercentage / 100 and totalAmount
\* is subtotal + taxAmount (quotients compared by cross-multiplication);
\* tax 0 gives 0, tax 100 gives the subtotal, and (2 x 5), (1 x 20) at 10%
\* give 30, 3 and 33.
C10_TotalsFormulas ==
    DraftNumeric(customer, items) =>
        LET sub == computeSubtotal(items)
            tax == Number(customer.taxPercentage).n
            ta == taxAmountOf(customer, items)
            tot == totalAmountOf(customer, items)
        IN /\ sub = SumOfProducts(items)
           /\ ta.den > 0 /\ tot.den > 0
           /\ ta.num * 100 = sub * tax * ta.den
           /\ tot.num * ta.den = (sub * ta.den + ta.num) * tot.den
           /\ tax = 0 => ta = QInt(0)
           /\ tax = 100 => ta = QInt(sub)
           /\ (items = TwoItemExample /\ tax = 10) =>
                 (sub = 30 /\ ta = QInt(3) /\ tot = QInt(33))

\* the two-item example at 10%, reached by an edit
C10_Witness ==
    /\ event = "itemChanged"
    /\ items = TwoItemExample
    /\ customer.taxPercentage = JNum(10)
    /\ totalAmountOf(customer, items) = QInt(33)

\* the value of a numeric field, and 0 for an empty or non-numeric one
ValueOrZero(v) == IF IsNumeric(v) THEN Number(v).n ELSE 0

RECURSIVE SumTreatingInvalidAsZero(_)
SumTreatingInvalidAsZero(its) ==
    IF its = << >> THEN 0
    ELSE ValueOrZero(Head(its).quantity) * ValueOrZero(Head(its).unitPrice)
         + SumTreatingInvalidAsZero(Tail(its))

\* C11: the totals are defined for every draft, partially filled or not:
\* an empty or non-numeric quantity, unitPrice or taxPercentage counts as
\* zero, so a row with quantity 0 or a non-numeric unitPrice adds 0 to the
\* subtotal and an empty or non-numeric taxPercentage gives taxAmount 0.
C11_TotalsTolerateInvalid ==
    LET sub == computeSubtotal(items)
        ta == taxAmountOf(customer, items)
        tot == totalAmountOf(customer, items)
    IN /\ sub \in Int
       /\ ta.num \in Int /\ ta.den > 0 /\ tot.num \in Int /\ tot.den > 0
       /\ sub = SumTreatingInvalidAsZero(items)
       /\ \A i \in 1..Len(items) :
             ( \/ ValueOrZero(items[i].quantity) = 0
               \/ ~IsNumeric(items[i].unitPrice) )
             => computeSubtotal(<< items[i] >>) = 0
       /\ ~IsNumeric(customer.taxPercentage) => (ta = QInt(0) /\ tot = QInt(sub))

\* a row with a non-numeric price, a row with quantity 0 and a non-numeric
\* tax, after an edit
C11_Witness ==
    /\ event = "customerChanged"
    /\ Len(items) = 2
    /\ items[1].quantity = JNum(2) /\ items[1].unitPrice = JStr(<<"x">>)
    /\ items[2].quantity = JStr(<<"0">>) /\ items[2].unitPrice = JNum(5)
    /\ customer.taxPercentage = JStr(<<"x">>)
    /\ computeSubtotal(items) = 0

(***************************************************************************)
(* Properties of the submission payload                                    *)
(***************************************************************************)
\* C12: the body of every POST /sales has the fields customerName,
\* customerEmail, customerPhone, taxPercentage and items; right after the
\* send customerPhone carries the draft's phone and items is the draft's
\* items mapped one to one, in order, to {productId, quantity, unitPrice}.
C12_PayloadShape ==
    \A k \in 1..Len(inflight) :
        LET body == inflight[k] IN
        /\ DOMAIN body = {"customerName", "customerEmail", "customerPhone",
                          "taxPercentage", "items"}
        /\ event = "submitSent" =>
              /\ body.customerPhone = Trim(customer.customerPhone)
              /\ Len(body.items) = Len(items)
              /\ \A i \in 1..Len(items) :
                    /\ DOMAIN body.items[i] = {"productId", "quantity", "unitPrice"}
                    /\ body.items[i].productId = items[i].productId

\* t has no space at either end
NoOuterSpace(t) == t = << >> \/ (t[1] # " " /\ t[Len(t)] # " ")

\* t is s without its leading and trailing spaces
IsTrimOf(t, s) ==
    /\ NoOuterSpace(t)
    /\ \E a \in 0..Len(s) : \E b \in 0..(Len(s) - a) :
          /\ t = SubSeq(s, a + 1, Len(s) - b)
          /\ \A i \in 1..a : s[i] = " "
          /\ \A i \in (Len(s) - b + 1)..Len(s) : s[i] = " "

\* the decimal text of a natural number
RECURSIVE DecimalText(_)
DecimalText(n) ==
    LET d == CHOOSE c \in Digits : DigitVal(c) = n % 10
    IN IF n < 10 THEN << d >> ELSE Append(DecimalText(n \div 10), d)

\* x is a JavaScript number (not a text) with the value the draft field v
\* denotes
IsNumberFor(x, v) ==
    /\ DOMAIN x = {"nan", "n"}
    /\ ~x.nan
    /\ x.n \in Nat
    /\ IF v.tag = "num" THEN x.n = v.n ELSE DecimalText(x.n) = v.s

\* C13: the payload built from a valid draft has a numeric (not string)
\* quantity and unitPrice for every item, a numeric taxPercentage, and
\* customer string fields without outer spaces, whether the draft held the
\* values as strings or as numbers.
C13_PayloadNumericAndTrimmed ==
    (event = "submitSent" /\ inflight # << >>) =>
        LET body == inflight[Len(inflight)] IN
        /\ Len(body.items) = Len(items)
        /\ \A i \in 1..Len(items) :
              /\ IsNumberFor(body.items[i].quantity, items[i].quantity)
              /\ IsNumberFor(body.items[i].unitPrice, items[i].unitPrice)
        /\ body.taxPercentage \in Nat
        /\ customer.taxPercentage.tag = "str" =>
              DecimalText(body.taxPercentage) = customer.taxPercentage.s
        /\ \A k \in DOMAIN body \ {"taxPercentage", "items"} :
              IsTrimOf(body[k],
                       IF k \in DOMAIN customer THEN customer[k]
                       ELSE customer.customerPhone)

\* a sent payload whose first item was held as text and second as numbers
C13_Witness ==
    /\ event = "submitSent"
    /\ Len(items) = 2
    /\ items[1].quantity = JStr(<<"2">>)
    /\ items[1].unitPrice = JStr(<<"5">>)
    /\ items[2].quantity = JNum(1)
    /\ customer.customerName = <<" ", "J">>
    /\ customer.customerPhone = <<" ", "5", " ">>
    /\ customer.taxPercentage = JStr(<<"1", "0">>)
    /\ inflight[1].items[1].quantity = Num(2)
    /\ inflight[1].customerName = <<"J">>

(***************************************************************************)
(* Properties of validate, rule by rule                                    *)
(***************************************************************************)
\* C14: validate returns the boolean "is valid", true iff the result it
\* produced is empty: every submit attempt gets a boolean back from
\* validate (none ends in an exception), the handler goes on exactly when
\* the result is empty, and a draft that satisfies every rule is accepted.
C14_ValidateReturnsIsValid ==
    SubmitAttempted =>
        /\ event # "submitThrew"
        /\ event = "submitSent" => ErrorKeys(fieldErrors) = {}
        /\ event = "submitInvalid" => ErrorKeys(fieldErrors) # {}
        /\ ~DraftViolatesRule(customer, items) => event = "submitSent"

\* s is one or more non-space characters, "@", one or more non-space
\* characters, ".", one or more non-space characters
NonSpaceEmailShape(s) ==
    /\ \A k \in 1..Len(s) : s[k] # " "
    /\ \E i, j \in 1..Len(s) :
          i > 1 /\ s[i] = "@" /\ j > i + 1 /\ s[j] = "." /\ j < Len(s)

\* C17: validate records an error under customerEmail exactly when the
\* trimmed email is blank or lacks the shape non-space+ "@" non-space+ "."
\* non-space+, and a draft with such an email is reported invalid (the
\* attempt ends with field errors shown, the key among them).
C17_EmailErrorRecorded ==
    SubmitAttempted =>
        LET bad == ~NonSpaceEmailShape(Trim(customer.customerEmail)) IN
        /\ "customerEmail" \in ErrorKeys(fieldErrors) <=> bad
        /\ bad => event = "submitInvalid"

\* C18: validate records an error under taxPercentage exactly when the tax
\* lies outside [0, 100]; 0 and 100 are accepted, and a draft with an
\* out-of-range tax is reported invalid.
C18_TaxErrorRecorded ==
    SubmitAttempted =>
        LET tax == taxPercentageOf(customer)
            bad == tax < 0 \/ tax > 100
        IN /\ "taxPercentage" \in ErrorKeys(fieldErrors) <=> bad
           /\ bad => event = "submitInvalid"

\* the messages the item rules give a row
ExpectedRowErrors(item) ==
    (IF item.productId = "" THEN {"Select a product"} ELSE {})
    \cup (IF ~(IsNumeric(item.quantity) /\ Number(item.quantity).n > 0)
          THEN {"Quantity must be at least 1"} ELSE {})
    \cup (IF ~IsNumeric(item.unitPrice) \/ Number(item.unitPrice).n < 0
          THEN {"Unit price must be 0 or more"} ELSE {})

\* C19: for a non-empty items sequence validate checks every item on its
\* own: after a submit attempt the itemErrors key is present iff some row
\* breaks an item rule, and then the per-row errors are as long as items
\* and row i holds exactly the messages of the rules item i breaks.
C19_ItemErrorsAligned ==
    (SubmitAttempted /\ items # << >>) =>
        LET rows == fieldErrors.itemErrors
            some == \E i \in 1..Len(items) : ExpectedRowErrors(items[i]) # {}
        IN /\ "itemErrors" \in ErrorKeys(fieldErrors) <=> some
           /\ some =>
                 /\ Len(rows) = Len(items)
                 /\ \A i \in 1..Len(items) :
                       {rows[i][f] : f \in DOMAIN rows[i]}
                           = ExpectedRowErrors(items[i])

(***************************************************************************)
(* Edits while a submission is in flight                                   *)
(***************************************************************************)
\* C15: edits made while a submission is in flight do not affect it.  A
\* request enters the pending ones carrying the payload built from the
\* draft as it is when the submit handler runs, no step that leaves the
\* number of pending requests alone changes any of their payloads, and a
\* request leaves only by being delivered, the others as they were.
C15_InFlightPayloadFixed ==
    [][ /\ Len(inflight') > Len(inflight) =>
              /\ inflight' = Append(inflight, BuildPayload(customer, items))
              /\ customer' = customer /\ items' = items
        /\ Len(inflight') = Len(inflight) => inflight' = inflight
        /\ Len(inflight') < Len(inflight) => inflight' = Tail(inflight) ]_vars

\* the draft was edited, after the send, into one that builds another
\* payload than the pending one
C15_Witness ==
    /\ inflight # << >>
    /\ event \in {"customerChanged", "itemChanged", "itemAdded", "itemRemoved"}
    /\ inflight[1] # BuildPayload(customer, items)

(***************************************************************************)
(* Properties of the session                                               *)
(***************************************************************************)
\* C16: protected pages are rendered only for an authenticated user.  The
\* nested route is on screen only when auth loading has finished and user
\* is non-null (and passes the route's `!user` test); once loading has
\* finished, a protected path with a null user shows the redirect, whose
\* next step lands on /login; a protected path never shows anything but
\* what ProtectedRoute returned; this after any sequence of page loads,
\* login and logout calls.
C16_ProtectedOnlyWhenSignedIn ==
    /\ [](rendered = "Outlet" =>
            (user # Null /\ Truthy(user) /\ ~loading /\ location \in ProtectedPaths))
    /\ []((~loading /\ user = Null /\ location \in ProtectedPaths) =>
            rendered = "Navigate")
    /\ [](location \in ProtectedPaths =>
            rendered \in {"Loading", "Navigate", "Outlet"})
    /\ [][rendered = "Navigate" =>
            (location' = "/login" /\ rendered' = "LoginPage")]_vars

\* logout on a protected page: the page is replaced by the redirect
C16_Witness ==
    /\ event = "loggedOut"
    /\ user = Null
    /\ ~loading
    /\ location \in ProtectedPaths
    /\ rendered = "Navigate"

(***************************************************************************)
(* Properties of the line-item operations                                  *)
(***************************************************************************)
\* C20: adding a line item always succeeds and appends exactly one item
\* {productId: "", quantity: 1, unitPrice: 0} at the end: whenever the
\* form is shown the add step can be taken (up to the longest sequence
\* modelled), and every step that makes the sequence longer makes it
\* longer by one, leaves every item that was there at its position with
\* its values, and puts the default item last.
C20_AddAppendsDefaultItem ==
    /\ []((FormRendered /\ Len(items) < MaxItems) => ENABLED addItemRow)
    /\ [][ Len(items') > Len(items) =>
              /\ Len(items') = Len(items) + 1
              /\ \A i \in 1..Len(items) : items'[i] = items[i]
              /\ items'[Len(items')] =
                     [productId |-> "", quantity |-> JNum(1), unitPrice |-> JNum(0)]
              /\ event' = "itemAdded" ]_vars

\* a row was added after an edited first row
C20_Witness ==
    /\ event = "itemAdded"
    /\ Len(items) = 2
    /\ items[1].productId = "p1"
    /\ items[2] = NewItemRow

ItemFields == {"productId", "quantity", "unitPrice"}

\* C21: an update of a line item changes only the named field of the item
\* at the index: every step of the item change handler leaves the customer
\* fields, the length and the order of the sequence as they were, and
\* there is one row and one field outside of which every field of every
\* row keeps its value.
C21_UpdateChangesOneField ==
    [][ event' = "itemChanged" =>
           /\ customer' = customer
           /\ Len(items') = Len(items)
           /\ \A i \in 1..Len(items) : DOMAIN items'[i] = ItemFields
           /\ \E index \in 1..Len(items) : \E field \in ItemFields :
                 \A i \in 1..Len(items) : \A f \in ItemFields :
                     (i # index \/ f # field) => items'[i][f] = items[i][f] ]_vars

\* the quantity of the second of two differing rows was edited
C21_Witness ==
    /\ event = "itemChanged"
    /\ Len(items) = 2
    /\ items[1].productId = "p1"
    /\ items[1].quantity = JNum(1)
    /\ items[2].productId = ""
    /\ items[2].quantity = JStr(<<"0">>)

(***************************************************************************)
(* Properties of the submit handler's failure paths                        *)
(***************************************************************************)
\* C22: no submit attempt crashes the form.  No run of the submit handler
\* ends in an unhandled error; a run that ends without sending leaves the
\* form in Editing with field errors recorded, and a run that ends after
\* the call leaves it in Editing with a success message or a top-level
\* error message.
C22_NoSubmitCrash ==
    /\ event # "submitThrew"
    /\ event = "submitInvalid" => (~saving /\ ErrorKeys(fieldErrors) # {})
    /\ event = "saleCreated" => (~saving /\ success # "")
    /\ event = "saleFailed" => (~saving /\ error # "")

(***************************************************************************)
(* Properties of form sessions                                             *)
(***************************************************************************)
\* C23: if the sale form is torn down while a submission (or its product
\* load) is in flight, the response that arrives later, success or failure,
\* is ignored safely: the step that handles it completes and changes no
\* state of the form on screen, whether none is mounted or a new one is,
\* and nothing it leaves behind stays pending in that form.
C23_DetachedResponseIgnored ==
    [][ Len(detached') < Len(detached) =>
           /\ event' = "detachedHandled"
           /\ customer' = customer /\ items' = items
           /\ products' = products /\ loadingProducts' = loadingProducts
           /\ saving' = saving /\ error' = error /\ success' = success
           /\ fieldErrors' = fieldErrors
           /\ inflight' = inflight /\ arrived' = arrived ]_vars

\* the answer of a torn-down form was handled while a new form, already
\* edited and itself submitting, is on screen
C23_Witness ==
    /\ event = "detachedHandled"
    /\ FormMounted
    /\ customer.customerName # EmptyText
    /\ saving
    /\ success = ""

HasToken == storage.token.present /\ storage.token.text # ""

\* the request carries an Authorization header (a non-empty text)
HasAuthorization(cfg) ==
    /\ cfg.headers.present
    /\ cfg.headers.Authorization.present
    /\ cfg.headers.Authorization.text # ""

\* C25: the interceptor attaches the stored JWT without overwriting.  For
\* every request: with a token stored and no Authorization header on the
\* request, the header becomes "Bearer <token>"; a request that has an
\* Authorization header leaves as it was made; with no token stored the
\* configuration is left unchanged; the rest of the configuration is kept
\* in every case.
C25_InterceptorAttachesToken ==
    event = "requestSent" =>
        /\ sent.url = config.url
        /\ (HasToken /\ ~HasAuthorization(config)) =>
              /\ sent.headers.present
              /\ sent.headers.Authorization
                     = Stored("Bearer " \o storage.token.text)
        /\ HasAuthorization(config) => sent = config
        /\ ~HasToken => sent = config

\* after a sign-in, a request made with its own Authorization header
C25_Witness ==
    /\ event = "requestSent"
    /\ HasToken
    /\ user = UserObject
    /\ config.headers.Authorization = Stored("Basic x")
    /\ sent = config

(***************************************************************************)
(* Properties of the invoices list                                         *)
(***************************************************************************)
\* C26: after a status save completes, the success message "Invoice status
\* updated." and a non-empty error message are never both set, and the
\* success message is set only if both the update and the list refetch
\* succeeded.
C26_SuccessAndErrorExclusive ==
    /\ ~(successMessage = StatusUpdatedMessage /\ invError # "")
    /\ event \in {"statusSavedRefetchFailed", "statusSaveFailed"} =>
          successMessage # StatusUpdatedMessage

PendingUpdates(id) ==
    Cardinality({k \in 1..Len(invCalls) :
                    invCalls[k].kind = "update" /\ invCalls[k].id = id})

\* C27: while a status update for an invoice is in flight the Save button
\* of that invoice stays disabled (savingStatusId is that invoice), so no
\* two update requests for the same invoice are in flight together.
C27_SaveDisabledWhileUpdating ==
    \A id \in InvoiceIds :
        /\ PendingUpdates(id) <= 1
        /\ PendingUpdates(id) = 1 => (savingStatusId = id /\ ~SaveButtonEnabled(id))

(***************************************************************************)
(* Properties of the sales list                                            *)
(***************************************************************************)
\* C28: once every outstanding list request has completed, the displayed
\* sales are the response to the request issued for the currently selected
\* status filter, in whatever order the responses of successive filter
\* changes arrived (stated here for responses that all succeeded since the
\* last error was cleared).
C28_DisplayedMatchesFilter ==
    (salesCalls = << >> /\ salesError = "" /\ sales.loaded) =>
        sales.filter = statusFilter

(***************************************************************************)
(* Properties of the stored credential                                     *)
(***************************************************************************)
\* C29: the in-memory user and the stored credential stay consistent.
\* From any localStorage content and after any sequence of login and
\* logout calls (and page loads), user is non-null only if both 'token'
\* and 'user' are present in localStorage, and right after logout user is
\* null and neither key is present.
C29_UserMatchesStorage ==
    /\ user # Null => (storage.token.present /\ storage.user.present)
    /\ event = "loggedOut" =>
          (user = Null /\ ~storage.token.present /\ ~storage.user.present)

\* signed out after a sign-in that carried no token
C29_Witness ==
    /\ event = "loggedOut"
    /\ user = Null
    /\ storage = NoCredentials
    /\ location = "/"

====
